---- MODULE Spec2Model ----
(***************************************************************************)
(* Model of pathway/xpacks/llm/llms.py: the OpenAIChat async UDF and the   *)
(* prompt_chat_single_qa prompt builder.                                   *)
(*                                                                         *)
(* One adapter instance is constructed (OpenAIChat.__init__), after which  *)
(* invocations of OpenAIChat.__wrapped__ run as coroutines.  Each          *)
(* statement of __wrapped__ is one step of the invocation, so that the     *)
(* steps of concurrent invocations interleave in every order.  The OpenAI  *)
(* client and the remote provider are external: the provider's answer to   *)
(* a request is a nondeterministic choice between a raised error and a     *)
(* response holding a list of choices.                                     *)
(***************************************************************************)
EXTENDS Integers, Sequences, FiniteSets, TLC

VARIABLES
    ctor,              \* arguments the constructor was called with
    self_kwargs,       \* self.kwargs, the stored configuration
    pc,                \* per invocation: position in __wrapped__
    prompt_question,   \* per invocation: the question given to the prompt builder, if used
    messages,          \* per invocation: the messages argument
    call_kwargs,       \* per invocation: the **kwargs argument
    messages_decoded,  \* per invocation: local messages_decoded
    kwargs,            \* per invocation: local kwargs after line 178
    api_key,           \* per invocation: local api_key
    client,            \* per invocation: local client
    requests,          \* per invocation: requests issued to the provider
    reply,             \* per invocation: how the provider answered the request
    ret,               \* per invocation: local ret
    outcome            \* per invocation: how the invocation ended

vars == <<ctor, self_kwargs, pc, prompt_question, messages, call_kwargs, messages_decoded,
          kwargs, api_key, client, requests, reply, ret, outcome>>

(***************************************************************************)
(* Bounds and input domains                                                *)
(***************************************************************************)
MaxLen == 2            \* longest message sequence passed to a call

Calls == {"c1", "c2"}  \* invocation slots of the one adapter instance

None == "<None>"       \* Python's None
Omitted == "<omitted>" \* a keyword argument the caller did not pass

ModelIds == {"A", "B"}
ApiKeys == {"sk-1", "sk-2"}
Temperatures == {"0.2"}
OptionKeys == {"model", "api_key", "temperature"}

OptionValues(k) ==
    CASE k = "model" -> ModelIds
      [] k = "api_key" -> ApiKeys
      [] k = "temperature" -> Temperatures

\* Python dicts with string keys: functions from a finite set of keys.
EmptyDict == [k \in {} |-> None]

DictsOver(keys) ==
    UNION { { d \in [dom -> ModelIds \cup ApiKeys \cup Temperatures] :
                \A k \in dom : d[k] \in OptionValues(k) } : dom \in SUBSET keys }

\* Python values that reach the messages parameter.
PyList(s) == [type |-> "list", value |-> s]
PyStr(s) == [type |-> "str", value |-> s]
Json(v) == [type |-> "Json", value |-> v]
Unbound == [type |-> "unbound", value |-> <<>>]

Questions == {"", "Wazzup?"}

MessageRecords ==
    { [role |-> "system", content |-> "Wazzup?"], [role |-> "user", content |-> ""] }

SeqsUpTo(S, n) == UNION { [1..m -> S] : m \in 0..n }

RecordLists == { PyList(s) : s \in SeqsUpTo(MessageRecords, MaxLen) }

\* Values in neither accepted shape: not a list, or a list whose elements
\* are not role/content records; bare or wrapped in pw.Json.
BadValues == { PyStr("oops"), PyList(<< [role |-> "system"] >>) }

Payloads ==
    RecordLists \cup { Json(v) : v \in RecordLists }
                \cup BadValues \cup { Json(v) : v \in BadValues }

Errors == {"AuthenticationFailure", "Timeout"}

\* choices lists of a provider response; an element is message.content.
ChoicesLists == { <<>>, <<None>>, <<"hello">>, <<None, "hello">> }

NoReply == [status |-> "none", error |-> None, choices |-> <<>>]
Response(choices) == [status |-> "ok", error |-> None, choices |-> choices]
Failure(e) == [status |-> "error", error |-> e, choices |-> <<>>]

NoOutcome == [kind |-> "pending", value |-> None]
Returned(v) == [kind |-> "return", value |-> v]
Raised(e) == [kind |-> "raise", value |-> e]

(***************************************************************************)
(* OpenAIChat.__init__                                                     *)
(***************************************************************************)
DefaultModel == "gpt-3.5-turbo"

\* the value bound to the parameter `model` (default at line 160)
model_param(arg) == IF arg = Omitted THEN DefaultModel ELSE arg

\* variant: the `is not None` test is missing, model is always stored
OpenAIChat_init_always_stores(model_arg, openai_kwargs) ==
    [k \in DOMAIN openai_kwargs \cup {"model"} |->
        IF k = "model" THEN model_param(model_arg) ELSE openai_kwargs[k]]

\* self.kwargs = dict(openai_kwargs); if model is not None: self.kwargs["model"] = model
OpenAIChat_init(model_arg, openai_kwargs) ==
    LET model == model_param(model_arg) IN
    IF model # None
    THEN [k \in DOMAIN openai_kwargs \cup {"model"} |->
            IF k = "model" THEN model ELSE openai_kwargs[k]]
    ELSE openai_kwargs

(***************************************************************************)
(* prompt_chat_single_qa                                                   *)
(***************************************************************************)
\* variant: the record carries the role "user"
prompt_chat_single_qa_user(question) ==
    Json(PyList(<< [role |-> "user", content |-> question] >>))

prompt_chat_single_qa(question) ==
    Json(PyList(<< [role |-> "system", content |-> question] >>))

(***************************************************************************)
(* Pure pieces of OpenAIChat.__wrapped__                                   *)
(***************************************************************************)
\* variant: the pw.Json wrapper is never removed
decode_no_unwrap(m) == m

\* variant: the pw.Json wrapper is removed only from a wrapped list
decode_lists_only(m) ==
    IF m.type = "Json" /\ m.value.type = "list" THEN m.value ELSE m

\* lines 173-176: isinstance(messages, pw.Json) ? messages.value : messages
decode(m) == IF m.type = "Json" THEN m.value ELSE m

\* variant: {**O, **C}, the stored value wins
merge_stored_wins(C, O) ==
    [k \in DOMAIN C \cup DOMAIN O |-> IF k \in DOMAIN C THEN C[k] ELSE O[k]]

\* {**C, **O}
merge(C, O) ==
    [k \in DOMAIN C \cup DOMAIN O |-> IF k \in DOMAIN O THEN O[k] ELSE C[k]]

\* variant: self.kwargs.update(kwargs); kwargs = self.kwargs
dict_display_in_place(stored, overrides) ==
    [stored |-> merge(stored, overrides), local |-> merge(stored, overrides)]

\* line 178: the dict display builds a fresh dict bound to the local name
\* kwargs; the dict held by self.kwargs is left as it was.
dict_display(stored, overrides) ==
    [stored |-> stored, local |-> merge(stored, overrides)]

\* line 179: d.pop(k, default): the value returned, and d afterwards
pop_value(d, k, default) == IF k \in DOMAIN d THEN d[k] ELSE default

\* variant: kwargs.get in place of kwargs.pop, the key stays
pop_rest_keeps(d, k) == d

pop_rest(d, k) == [j \in DOMAIN d \ {k} |-> d[j]]

\* line 180: openai_mod.AsyncOpenAI(api_key=api_key)
AsyncOpenAI(key) == [api_key |-> key]

\* line 181: the call client.chat.completions.create(messages=..., **kwargs)
create_request(cl, msgs, kw) ==
    [api_key |-> cl.api_key, messages |-> msgs, fields |-> kw]

\* variant: ret.choices[-1], and None for an empty list
first_content_last(choices) ==
    IF Len(choices) = 0 THEN Returned(None) ELSE Returned(choices[Len(choices)])

\* line 182: ret.choices[0].message.content
first_content(choices) ==
    IF Len(choices) = 0 THEN Raised("IndexError") ELSE Returned(choices[1])

\* variant: except Exception: return None
await_raises_swallowed(e) == Returned(None)

\* line 181: the await is in no try block, so an exception raised by it
\* leaves __wrapped__ as it is
await_raises(e) == Raised(e)

\* variant: the locals are kept on the instance, one set for all invocations
frame_on_instance(c) == "c1"

\* the locals of an invocation live in that invocation's own frame
frame(c) == c

(***************************************************************************)
(* Initial state: the adapter has been constructed, no call is running.    *)
(***************************************************************************)
ModelArgs == {Omitted, None, "A"}

InitWith(margs, okws) ==
    /\ ctor \in [model : margs, openai_kwargs : okws]
    /\ self_kwargs = OpenAIChat_init(ctor.model, ctor.openai_kwargs)
    /\ pc = [c \in Calls |-> "idle"]
    /\ prompt_question = [c \in Calls |-> Omitted]
    /\ messages = [c \in Calls |-> Unbound]
    /\ call_kwargs = [c \in Calls |-> EmptyDict]
    /\ messages_decoded = [c \in Calls |-> Unbound]
    /\ kwargs = [c \in Calls |-> EmptyDict]
    /\ api_key = [c \in Calls |-> None]
    /\ client = [c \in Calls |-> AsyncOpenAI(None)]
    /\ requests = [c \in Calls |-> <<>>]
    /\ reply = [c \in Calls |-> NoReply]
    /\ ret = [c \in Calls |-> <<>>]
    /\ outcome = [c \in Calls |-> NoOutcome]

Init == InitWith(ModelArgs, DictsOver({"api_key", "temperature"}))

(***************************************************************************)
(* Steps of one invocation c of __wrapped__                                *)
(***************************************************************************)
\* the call chat(m, **o): parameters bound, locals fresh
Enter(c, q, m, o) ==
    /\ pc[c] = "idle"
    /\ prompt_question' = [prompt_question EXCEPT ![c] = q]
    /\ pc' = [pc EXCEPT ![c] = "decode"]
    /\ messages' = [messages EXCEPT ![c] = m]
    /\ call_kwargs' = [call_kwargs EXCEPT ![c] = o]
    /\ messages_decoded' = [messages_decoded EXCEPT ![c] = Unbound]
    /\ kwargs' = [kwargs EXCEPT ![c] = o]
    /\ api_key' = [api_key EXCEPT ![c] = None]
    /\ client' = [client EXCEPT ![c] = AsyncOpenAI(None)]
    /\ requests' = [requests EXCEPT ![c] = <<>>]
    /\ ret' = [ret EXCEPT ![c] = <<>>]
    /\ reply' = [reply EXCEPT ![c] = NoReply]
    /\ outcome' = [outcome EXCEPT ![c] = NoOutcome]
    /\ UNCHANGED <<ctor, self_kwargs>>

Invoke(c, P, O) == \E m \in P, o \in O : Enter(c, Omitted, m, o)

\* chat(prompt_chat_single_qa(q), **o)
InvokeWithPrompt(c, O) ==
    \E q \in Questions, o \in O : Enter(c, q, prompt_chat_single_qa(q), o)

\* lines 173-176
Decode(c) ==
    /\ pc[c] = "decode"
    /\ messages_decoded' = [messages_decoded EXCEPT ![frame(c)] = decode(messages[c])]
    /\ pc' = [pc EXCEPT ![c] = "merge"]
    /\ UNCHANGED <<ctor, self_kwargs, prompt_question, reply, messages, call_kwargs, kwargs, api_key,
                   client, requests, ret, outcome>>

\* line 178
Merge(c) ==
    /\ pc[c] = "merge"
    /\ LET r == dict_display(self_kwargs, call_kwargs[c]) IN
        /\ self_kwargs' = r.stored
        /\ kwargs' = [kwargs EXCEPT ![frame(c)] = r.local]
    /\ pc' = [pc EXCEPT ![c] = "pop"]
    /\ UNCHANGED <<ctor, prompt_question, reply, messages, call_kwargs, messages_decoded, api_key,
                   client, requests, ret, outcome>>

\* line 179
PopApiKey(c) ==
    /\ pc[c] = "pop"
    /\ api_key' = [api_key EXCEPT ![frame(c)] = pop_value(kwargs[frame(c)], "api_key", None)]
    /\ kwargs' = [kwargs EXCEPT ![frame(c)] = pop_rest(kwargs[frame(c)], "api_key")]
    /\ pc' = [pc EXCEPT ![c] = "client"]
    /\ UNCHANGED <<ctor, self_kwargs, prompt_question, reply, messages, call_kwargs, messages_decoded,
                   client, requests, ret, outcome>>

\* line 180
MakeClient(c) ==
    /\ pc[c] = "client"
    /\ client' = [client EXCEPT ![frame(c)] = AsyncOpenAI(api_key[frame(c)])]
    /\ pc' = [pc EXCEPT ![c] = "create"]
    /\ UNCHANGED <<ctor, self_kwargs, prompt_question, reply, messages, call_kwargs, messages_decoded,
                   kwargs, api_key, requests, ret, outcome>>

\* line 181, the call: the request goes out and the coroutine suspends
Dispatch(c) ==
    /\ pc[c] = "create"
    /\ requests' = [requests EXCEPT ![c] =
          Append(@, create_request(client[frame(c)], messages_decoded[frame(c)],
                                   kwargs[frame(c)]))]
    /\ pc' = [pc EXCEPT ![c] = "await"]
    /\ UNCHANGED <<ctor, self_kwargs, prompt_question, reply, messages, call_kwargs, messages_decoded,
                   kwargs, api_key, client, ret, outcome>>

\* line 181, the await completes with a response bound to ret
AwaitResponse(c) ==
    /\ pc[c] = "await"
    /\ \E choices \in ChoicesLists :
          /\ reply' = [reply EXCEPT ![c] = Response(choices)]
          /\ ret' = [ret EXCEPT ![frame(c)] = choices]
    /\ pc' = [pc EXCEPT ![c] = "extract"]
    /\ UNCHANGED <<ctor, self_kwargs, prompt_question, messages, call_kwargs, messages_decoded,
                   kwargs, api_key, client, requests, outcome>>

\* line 181, the await raises: no handler in __wrapped__, the invocation
\* ends with the error
AwaitRaises(c) ==
    /\ pc[c] = "await"
    /\ \E e \in Errors :
          /\ reply' = [reply EXCEPT ![c] = Failure(e)]
          /\ outcome' = [outcome EXCEPT ![c] = await_raises(e)]
    /\ pc' = [pc EXCEPT ![c] = "done"]
    /\ UNCHANGED <<ctor, self_kwargs, prompt_question, messages, call_kwargs, messages_decoded,
                   kwargs, api_key, client, requests, ret>>

\* line 182
Extract(c) ==
    /\ pc[c] = "extract"
    /\ outcome' = [outcome EXCEPT ![c] = first_content(ret[frame(c)])]
    /\ pc' = [pc EXCEPT ![c] = "done"]
    /\ UNCHANGED <<ctor, self_kwargs, prompt_question, reply, messages, call_kwargs, messages_decoded,
                   kwargs, api_key, client, requests, ret>>

\* the invocation's frame is discarded; the slot can run another call
Discard(c) ==
    /\ pc[c] = "done"
    /\ pc' = [pc EXCEPT ![c] = "idle"]
    /\ prompt_question' = [prompt_question EXCEPT ![c] = Omitted]
    /\ messages' = [messages EXCEPT ![c] = Unbound]
    /\ call_kwargs' = [call_kwargs EXCEPT ![c] = EmptyDict]
    /\ messages_decoded' = [messages_decoded EXCEPT ![c] = Unbound]
    /\ kwargs' = [kwargs EXCEPT ![c] = EmptyDict]
    /\ api_key' = [api_key EXCEPT ![c] = None]
    /\ client' = [client EXCEPT ![c] = AsyncOpenAI(None)]
    /\ requests' = [requests EXCEPT ![c] = <<>>]
    /\ ret' = [ret EXCEPT ![c] = <<>>]
    /\ reply' = [reply EXCEPT ![c] = NoReply]
    /\ outcome' = [outcome EXCEPT ![c] = NoOutcome]
    /\ UNCHANGED <<ctor, self_kwargs>>

Step(c) ==
    \/ Decode(c)
    \/ Merge(c)
    \/ PopApiKey(c)
    \/ MakeClient(c)
    \/ Dispatch(c)
    \/ AwaitResponse(c)
    \/ AwaitRaises(c)
    \/ Extract(c)
    \/ Discard(c)

(***************************************************************************)
(* Spec: calls on the adapter one after another, over every payload and    *)
(* every override mapping.                                                 *)
(***************************************************************************)
Next ==
    \/ Invoke("c1", Payloads, DictsOver(OptionKeys))
    \/ InvokeWithPrompt("c1", DictsOver(OptionKeys))
    \/ Step("c1")

Spec == Init /\ [][Next]_vars

(***************************************************************************)
(* SpecConc: two invocations on the same adapter instance, their steps     *)
(* interleaved in every order.                                             *)
(***************************************************************************)
InitConc == InitWith({"A"}, DictsOver({"temperature"}))

NextConc ==
    \E c \in Calls :
        \/ InvokeWithPrompt(c, DictsOver({"model", "api_key"}))
        \/ Step(c)

SpecConc == InitConc /\ [][NextConc]_vars

(***************************************************************************)
(* Vocabulary of the properties                                            *)
(***************************************************************************)
IsMessageRecord(m) == DOMAIN m = {"role", "content"}

IsRecordList(v) ==
    /\ v.type = "list"
    /\ \A i \in 1..Len(v.value) : IsMessageRecord(v.value[i])

\* one of the two accepted shapes of the messages argument
WellFormed(p) == IsRecordList(p) \/ (p.type = "Json" /\ IsRecordList(p.value))

Running(c) == pc[c] # "idle"

Sent(c) == Len(requests[c]) >= 1

NonEmptyRecordSeqs == SeqsUpTo(MessageRecords, MaxLen) \ {<<>>}

(***************************************************************************)
(* C1                                                                      *)
(***************************************************************************)
\* C1: the effective options a call computes at line 178 are the
\* right-biased union of the stored configuration and the call's overrides:
\* the keys are those of either, an override key has the override's value,
\* a key of the configuration alone has the configuration's value.
C1_EffectiveIsRightBiasedUnion ==
    \A c \in Calls :
        pc[c] = "pop" =>
            /\ DOMAIN kwargs[c] = DOMAIN self_kwargs \cup DOMAIN call_kwargs[c]
            /\ \A k \in DOMAIN call_kwargs[c] : kwargs[c][k] = call_kwargs[c][k]
            /\ \A k \in DOMAIN self_kwargs \ DOMAIN call_kwargs[c] :
                  kwargs[c][k] = self_kwargs[k]

\* a merge with a key in both (values differing), one in the configuration
\* alone and one in the overrides alone
C1_Witness ==
    /\ pc["c1"] = "pop"
    /\ DOMAIN self_kwargs = {"model", "temperature"}
    /\ DOMAIN call_kwargs["c1"] = {"model", "api_key"}
    /\ self_kwargs["model"] # call_kwargs["c1"]["model"]

(***************************************************************************)
(* C2                                                                      *)
(***************************************************************************)
\* the api_key of the effective options, None when there is none
EffectiveApiKey(c) ==
    IF "api_key" \in DOMAIN call_kwargs[c] THEN call_kwargs[c]["api_key"]
    ELSE IF "api_key" \in DOMAIN self_kwargs THEN self_kwargs["api_key"]
    ELSE None

\* C2: no request sent to the provider has an api_key field; the client
\* that sends it was built with the api_key of the effective options
\* (override over configuration), or with None when neither has one.
C2_ApiKeyGoesToClientOnly ==
    \A c \in Calls : \A i \in 1..Len(requests[c]) :
        /\ "api_key" \notin DOMAIN requests[c][i].fields
        /\ requests[c][i].api_key = EffectiveApiKey(c)

\* a request sent by a call whose override api_key shadows a different
\* stored api_key
C2_Witness ==
    /\ Sent("c1")
    /\ "api_key" \in DOMAIN self_kwargs
    /\ "api_key" \in DOMAIN call_kwargs["c1"]
    /\ self_kwargs["api_key"] # call_kwargs["c1"]["api_key"]
    /\ requests["c1"][1].api_key = call_kwargs["c1"]["api_key"]
    /\ "temperature" \in DOMAIN requests["c1"][1].fields

\* a request sent by a call with no api_key anywhere: the client has no key
C2_WitnessNoKey ==
    /\ Sent("c1")
    /\ "api_key" \notin DOMAIN self_kwargs \cup DOMAIN call_kwargs["c1"]
    /\ requests["c1"][1].api_key = None

(***************************************************************************)
(* C3                                                                      *)
(***************************************************************************)
\* C3: for a non-empty sequence s of message records, a call given
\* pw.Json(s) and a call given the list s both send the list s itself.
C3_BothShapesSendTheSequence ==
    \A c \in Calls : \A s \in NonEmptyRecordSeqs :
        (Sent(c) /\ messages[c] \in {PyList(s), Json(PyList(s))}) =>
            /\ Len(requests[c]) = 1
            /\ requests[c][1].messages = PyList(s)

\* a request sent for a wrapped sequence of two different records
C3_Witness ==
    /\ Sent("c1")
    /\ messages["c1"].type = "Json"
    /\ requests["c1"][1].messages.type = "list"
    /\ Len(requests["c1"][1].messages.value) = 2
    /\ requests["c1"][1].messages.value[1] # requests["c1"][1].messages.value[2]

(***************************************************************************)
(* C4                                                                      *)
(***************************************************************************)
\* C4 as stated: a call whose messages argument has neither accepted shape
\* issues no request and ends with MalformedPayload.
C4_MalformedNeverSent ==
    \A c \in Calls :
        (Running(c) /\ ~WellFormed(messages[c])) =>
            /\ ~Sent(c)
            /\ pc[c] = "done" => outcome[c] = Raised("MalformedPayload")

\* C4 as the code has it: __wrapped__ checks no shape.  A call given a
\* value of neither accepted shape sends one request carrying that value
\* (taken out of its pw.Json wrapper when it has one), and never ends with
\* MalformedPayload.
C4_MalformedIsForwarded ==
    \A c \in Calls : \A b \in BadValues :
        (Running(c) /\ messages[c] \in {b, Json(b)}) =>
            /\ outcome[c] # Raised("MalformedPayload")
            /\ pc[c] \in {"await", "extract", "done"} =>
                  /\ Len(requests[c]) = 1
                  /\ requests[c][1].messages = b

\* a request sent for a wrapped value that is no list
C4_Witness ==
    /\ messages["c1"] = Json(PyStr("oops"))
    /\ Sent("c1")
    /\ requests["c1"][1].messages = PyStr("oops")

(***************************************************************************)
(* C5                                                                      *)
(***************************************************************************)
\* C5 as stated: a response with an empty choices list, or with a first
\* choice of null content, makes the call return None.
C5_EmptyOrNullReturnsNone ==
    \A c \in Calls :
        (/\ pc[c] = "done"
         /\ reply[c].status = "ok"
         /\ (Len(reply[c].choices) = 0 \/ reply[c].choices[1] = None)) =>
            outcome[c] = Returned(None)

\* C5 as the code has it: a response whose first choice has null content
\* makes the call return None; a response with an empty choices list makes
\* the call fail with IndexError.
C5_NullReturnsNoneEmptyRaises ==
    \A c \in Calls :
        (pc[c] = "done" /\ reply[c].status = "ok") =>
            /\ (Len(reply[c].choices) > 0 /\ reply[c].choices[1] = None) =>
                  outcome[c] = Returned(None)
            /\ Len(reply[c].choices) = 0 => outcome[c] = Raised("IndexError")

\* a call that returned None for a response whose first content is null
C5_Witness ==
    /\ pc["c1"] = "done"
    /\ reply["c1"] = Response(<<None, "hello">>)
    /\ outcome["c1"] = Returned(None)

\* a call that failed on a response with no choices
C5_WitnessEmpty ==
    /\ pc["c1"] = "done"
    /\ reply["c1"] = Response(<<>>)
    /\ outcome["c1"] = Raised("IndexError")

(***************************************************************************)
(* C6 (under SpecConc)                                                     *)
(***************************************************************************)
\* C6: with two calls running on the same instance, in every interleaving
\* of their steps, each request carries the override values of the call
\* that issued it: every override key other than api_key is a field of the
\* request with that call's value, and an api_key override is the key of
\* that call's client.
C6_RequestCarriesOwnOverrides ==
    \A c \in Calls : \A i \in 1..Len(requests[c]) :
        /\ \A k \in DOMAIN call_kwargs[c] \ {"api_key"} :
              /\ k \in DOMAIN requests[c][i].fields
              /\ requests[c][i].fields[k] = call_kwargs[c][k]
        /\ "api_key" \in DOMAIN call_kwargs[c] =>
              requests[c][i].api_key = call_kwargs[c]["api_key"]

\* both calls in flight at once, one overriding model with A and the other
\* with B, each request carrying its own value
C6_Witness ==
    /\ pc["c1"] = "await"
    /\ pc["c2"] = "await"
    /\ "model" \in DOMAIN call_kwargs["c1"] \cap DOMAIN call_kwargs["c2"]
    /\ call_kwargs["c1"]["model"] = "A"
    /\ call_kwargs["c2"]["model"] = "B"
    /\ requests["c1"][1].fields["model"] = "A"
    /\ requests["c2"][1].fields["model"] = "B"

(***************************************************************************)
(* C7                                                                      *)
(***************************************************************************)
\* C7: whatever calls have run, with whatever overrides and outcomes, the
\* stored configuration is the one the constructor set.
C7_StoredConfigurationUnchanged ==
    self_kwargs = OpenAIChat_init(ctor.model, ctor.openai_kwargs)

\* C7, step by step: no step of any call changes the stored configuration.
C7_NoStepChangesStored == [][self_kwargs' = self_kwargs]_vars

\* a failed call whose overrides shadowed the stored model, added an
\* api_key over a stored one, and whose api_key was popped from the
\* effective options while the stored configuration still has its own
C7_Witness ==
    /\ pc["c1"] = "done"
    /\ outcome["c1"].kind = "raise"
    /\ {"model", "api_key"} \subseteq DOMAIN self_kwargs
    /\ {"model", "api_key", "temperature"} \subseteq DOMAIN call_kwargs["c1"]
    /\ "temperature" \notin DOMAIN self_kwargs
    /\ call_kwargs["c1"]["model"] # self_kwargs["model"]
    /\ call_kwargs["c1"]["api_key"] # self_kwargs["api_key"]
    /\ "api_key" \notin DOMAIN kwargs["c1"]

(***************************************************************************)
(* C8                                                                      *)
(***************************************************************************)
\* C8 as stated: a model given to the constructor is stored under "model";
\* with the model argument omitted there is no "model" key.
C8_OmittedModelLeavesNoKey ==
    /\ ctor.model \notin {Omitted, None} =>
          ("model" \in DOMAIN self_kwargs /\ self_kwargs["model"] = ctor.model)
    /\ ctor.model = Omitted => "model" \notin DOMAIN self_kwargs

\* C8 as the code has it: a model given to the constructor is stored under
\* "model"; with the model argument omitted the default "gpt-3.5-turbo" is
\* stored; only model=None leaves the configuration without a "model" key,
\* and then a call without a model override sends no model field.
C8_ModelKeyAtConstruction ==
    /\ ctor.model \notin {Omitted, None} =>
          ("model" \in DOMAIN self_kwargs /\ self_kwargs["model"] = ctor.model)
    /\ ctor.model = Omitted =>
          ("model" \in DOMAIN self_kwargs /\ self_kwargs["model"] = "gpt-3.5-turbo")
    /\ ctor.model = None =>
          /\ "model" \notin DOMAIN self_kwargs
          /\ \A c \in Calls : \A i \in 1..Len(requests[c]) :
                "model" \notin DOMAIN call_kwargs[c] =>
                    "model" \notin DOMAIN requests[c][i].fields

\* an adapter built with model=None has sent a request without a model
\* field
C8_Witness ==
    /\ ctor.model = None
    /\ Sent("c1")
    /\ "model" \notin DOMAIN call_kwargs["c1"]
    /\ "model" \notin DOMAIN requests["c1"][1].fields

\* an adapter built without a model argument has sent the default model
C8_WitnessOmitted ==
    /\ ctor.model = Omitted
    /\ Sent("c1")
    /\ "model" \notin DOMAIN call_kwargs["c1"]
    /\ requests["c1"][1].fields["model"] = "gpt-3.5-turbo"

(***************************************************************************)
(* C9                                                                      *)
(***************************************************************************)
\* C9: for every question q, the empty string included, the prompt builder
\* gives pw.Json of the one-element list [{role: "system", content: q}],
\* and a call given that payload sends exactly that one record.
C9_PromptIsOneSystemRecord ==
    \A c \in Calls :
        (Running(c) /\ prompt_question[c] \in Questions) =>
            /\ messages[c] =
                  [type |-> "Json",
                   value |-> [type |-> "list",
                              value |-> << [role |-> "system",
                                            content |-> prompt_question[c]] >>]]
            /\ \A i \in 1..Len(requests[c]) :
                  requests[c][i].messages =
                      [type |-> "list",
                       value |-> << [role |-> "system",
                                     content |-> prompt_question[c]] >>]

\* a request sent for the prompt built from the empty question
C9_Witness ==
    /\ prompt_question["c1"] = ""
    /\ Sent("c1")
    /\ Len(requests["c1"][1].messages.value) = 1
    /\ requests["c1"][1].messages.value[1].content = ""

(***************************************************************************)
(* C10                                                                     *)
(***************************************************************************)
\* C10: a call issues at most one request and has one outcome, set when it
\* ends; when the provider's request fails, the call has ended with that
\* same failure, after one request.
C10_OneRequestFailurePropagates ==
    \A c \in Calls :
        /\ Len(requests[c]) <= 1
        /\ pc[c] = "done" <=> outcome[c].kind \in {"return", "raise"}
        /\ pc[c] # "done" => outcome[c] = NoOutcome
        /\ reply[c].status = "error" =>
              /\ pc[c] = "done"
              /\ Len(requests[c]) = 1
              /\ outcome[c] = Raised(reply[c].error)

\* C10, step by step: once a call has ended, its outcome and its requests
\* stay as they are until its frame is discarded.
C10_OutcomeIsFinal ==
    [][\A c \in Calls :
          (pc[c] = "done" /\ pc'[c] = "done") =>
              (outcome'[c] = outcome[c] /\ requests'[c] = requests[c])]_vars

\* a call that ended with the provider's Timeout after one request
C10_Witness ==
    /\ pc["c1"] = "done"
    /\ reply["c1"] = Failure("Timeout")
    /\ outcome["c1"] = Raised("Timeout")
    /\ Len(requests["c1"]) = 1

====
